---- MODULE Spec2Model ----
(***************************************************************************)
(* Model of src/app.py: the deficit-priority greedy allocator              *)
(* find_best_allocation and its caller run_precise_optimization_logic.     *)
(* A team is the pair <<id, power>>.  Python's None is the empty tuple     *)
(* and a present value v is <<v>>.                                         *)
(***************************************************************************)
EXTENDS Integers, Sequences, FiniteSets

VARIABLES pc, entry, our_teams, enemy_data, advantages, targets, lanes, idx,
          final_allocation, report, power_diff, calls

vars == <<pc, entry, our_teams, enemy_data, advantages, targets, lanes, idx,
          final_allocation, report, power_diff, calls>>

----------------------------------------------------------------------------
(* Program constants                                                       *)

LaneCapacity == 20

RosterSize == 60

(* iteration order of the dict literal 'lanes' *)
LaneOrder == <<"left", "center", "right">>

Lanes == {"left", "center", "right"}

None == <<>>

Some(v) == <<v>>

----------------------------------------------------------------------------
(* Bounds of the inputs                                                    *)

MaxStrong == 2

MaxMid == 3

MaxOff == 1

IdMod == 11

PowerTiers == <<3, 2>>

BasePowers == {0, 1}

TargetVals == {-1, 6, 21}

TeamId(k) == (k * 7) % IdMod

(* a roster sorted by power descending, as parse_power_data returns it *)
MkRoster(n, s, m, b) ==
    [k \in 1..n |-> <<TeamId(k), IF k <= s THEN PowerTiers[1]
                                 ELSE IF k <= s + m THEN PowerTiers[2] ELSE b>>]

Rosters ==
    {MkRoster(n, s, m, b) : n \in (RosterSize - MaxOff)..(RosterSize + MaxOff),
                            s \in 0..MaxStrong, m \in 0..MaxMid, b \in BasePowers}

EnemyRosters == {<<>>, <<<<4, 3>>, <<2, 2>>, <<9, 1>>>>, <<<<1, 1000>>, <<2, 5>>>>}

(* the dict 'advantages'; an absent key is None *)
AdvantageDicts ==
    {[name \in Lanes |-> None],
     [name \in Lanes |-> Some(0)],
     [left |-> Some(0), center |-> Some(1), right |-> Some(-1)],
     [left |-> Some(-1), center |-> None, right |-> Some(-6)]}

----------------------------------------------------------------------------
(* Pure helpers                                                            *)

RECURSIVE SumPower(_)
SumPower(teams) ==
    IF teams = <<>> THEN 0 ELSE teams[1][2] + SumPower(Tail(teams))

(* dict.get(name, default) *)
Get(d, name, default) == IF d[name] = None THEN default ELSE d[name][1]

(* lines 52-56 *)
InitLanes(tg) ==
    [name \in Lanes |-> [teams |-> <<>>, current_power |-> 0, target |-> tg[name]]]

NegInf == [inf |-> TRUE, val |-> 0]

Fin(v) == [inf |-> FALSE, val |-> v]

(* the capacity test off by one *)
HasRoomInclusive(data) == Len(data.teams) <= LaneCapacity

(* line 62 *)
HasRoom(data) == Len(data.teams) < LaneCapacity

(* lines 60-65 *)
Deficits(ls) ==
    [name \in Lanes |-> IF HasRoom(ls[name])
                        THEN Fin(ls[name].target - ls[name].current_power)
                        ELSE NegInf]

(* a > b on deficit values: Python compares int with float('-inf') exactly *)
Greater(a, b) ==
    IF a.inf THEN FALSE ELSE IF b.inf THEN TRUE ELSE a.val > b.val

(* any() in place of all() *)
AnyLaneFull(deficits) ==
    \/ DOMAIN deficits = {}
    \/ \E name \in DOMAIN deficits : deficits[name] = NegInf

(* line 67 *)
NothingToAssign(deficits) ==
    \/ DOMAIN deficits = {}
    \/ \A name \in DOMAIN deficits : deficits[name] = NegInf

RECURSIVE MaxFrom(_, _, _)
MaxFrom(deficits, k, best) ==
    IF k > Len(LaneOrder) THEN best
    ELSE MaxFrom(deficits, k + 1,
                 IF Greater(deficits[LaneOrder[k]], deficits[best])
                 THEN LaneOrder[k] ELSE best)

RECURSIVE MaxFromLast(_, _, _)
MaxFromLast(deficits, k, best) ==
    IF k > Len(LaneOrder) THEN best
    ELSE MaxFromLast(deficits, k + 1,
                     IF Greater(deficits[best], deficits[LaneOrder[k]])
                     THEN best ELSE LaneOrder[k])

(* the last maximal key in place of the first *)
BestLaneLast(deficits) == MaxFromLast(deficits, 2, LaneOrder[1])

(* line 71: max(deficits, key=deficits.get) returns the first maximal key *)
BestLane(deficits) == MaxFrom(deficits, 2, LaneOrder[1])

(* the id added to the accumulated power in place of the power *)
AssignAddsId(ls, name, team) ==
    [ls EXCEPT ![name].teams = Append(@, team),
               ![name].current_power = @ + team[1]]

(* lines 74-75 *)
Assign(ls, name, team) ==
    [ls EXCEPT ![name].teams = Append(@, team),
               ![name].current_power = @ + team[2]]

RECURSIVE InsertById(_, _)
InsertById(sorted, team) ==
    IF sorted = <<>> THEN <<team>>
    ELSE IF sorted[Len(sorted)][1] <= team[1] THEN Append(sorted, team)
    ELSE Append(InsertById(SubSeq(sorted, 1, Len(sorted) - 1), team),
                sorted[Len(sorted)])

RECURSIVE SortByIdDistinct(_)
(* a sort that keeps one copy of equal (id, power) pairs *)
SortByIdDistinct(teams) ==
    IF teams = <<>> THEN <<>>
    ELSE LET rest == SortByIdDistinct(SubSeq(teams, 1, Len(teams) - 1))
             t == teams[Len(teams)]
         IN IF \E k \in DOMAIN rest : rest[k] = t THEN rest ELSE InsertById(rest, t)

RECURSIVE SortById(_)
(* line 87: sorted(teams, key=lambda x: x[0]) is a stable sort *)
SortById(teams) ==
    IF teams = <<>> THEN <<>>
    ELSE InsertById(SortById(SubSeq(teams, 1, Len(teams) - 1)), teams[Len(teams)])

(* > in place of >= *)
IsSuccessStrict(data) == data.current_power > data.target

(* line 82 *)
IsSuccess(data) == data.current_power >= data.target

(* lines 86-93 *)
LaneResult(data) ==
    [teams |-> SortById(data.teams),
     total_power |-> data.current_power,
     target |-> data.target,
     difference |-> data.current_power - data.target,
     count |-> Len(data.teams),
     is_success |-> IsSuccess(data)]

(* lines 78-97 *)
FinalAllocation(ls) ==
    [success |-> \A name \in Lanes : IsSuccess(ls[name]),
     lanes |-> [name \in Lanes |-> LaneResult(ls[name])]]

DigitChars == <<"0", "1", "2", "3", "4", "5", "6", "7", "8", "9">>

RECURSIVE Digits(_)
Digits(n) ==
    IF n < 10 THEN <<DigitChars[n + 1]>>
    ELSE Append(Digits(n \div 10), DigitChars[(n % 10) + 1])

(* f"{n}" for n >= 0 and with a sign otherwise *)
FormatInt(n) == IF n < 0 THEN <<"-">> \o Digits(-n) ELSE Digits(n)

RECURSIVE Group(_)
Group(ds) ==
    IF Len(ds) <= 3 THEN ds
    ELSE Group(SubSeq(ds, 1, Len(ds) - 3)) \o <<",">> \o SubSeq(ds, Len(ds) - 2, Len(ds))

(* f"{n:,}" *)
FormatComma(n) == IF n < 0 THEN <<"-">> \o Group(Digits(-n)) ELSE Group(Digits(n))

(* line 111 *)
EnemyTotals(ed) == [name \in Lanes |-> SumPower(ed[name])]

(* lines 113-117 *)
TargetPowers(ed, adv) ==
    [name \in Lanes |-> EnemyTotals(ed)[name] + Get(adv, name, 0)]

(* the right lane's target left out of the sum *)
RequiredTotalTwoLanes(tg) == tg["left"] + tg["center"]

(* line 122 *)
RequiredTotal(tg) == tg["left"] + tg["center"] + tg["right"]

(* < in place of != *)
CountBelow(teams) == Len(teams) < RosterSize

(* line 132 *)
CountMismatch(teams) == Len(teams) # RosterSize

(* the sign of the test reversed *)
InsufficientReversed(diff) == diff > 0

(* line 136 *)
Insufficient(diff) == diff < 0

EmptySummary == [kind |-> "", text |-> <<>>]

(* line 133 *)
CountSummary(teams) == [kind |-> "count_mismatch", text |-> FormatInt(Len(teams))]

(* line 137 *)
InsufficientSummary(diff) == [kind |-> "insufficient", text |-> FormatComma(-diff)]

(* the two messages exchanged *)
ResultSummarySwapped(alloc) ==
    IF alloc.success THEN [kind |-> "partial", text |-> <<>>]
    ELSE [kind |-> "success", text |-> <<>>]

(* lines 143-146 *)
ResultSummary(alloc) ==
    IF alloc.success THEN [kind |-> "success", text |-> <<>>]
    ELSE [kind |-> "partial", text |-> <<>>]

(* lines 103-108 *)
EmptyReport ==
    [title |-> "report", analysis |-> <<>>, summary |-> EmptySummary,
     best_allocation |-> None]

----------------------------------------------------------------------------
(* State machine                                                           *)

NoTargets == [name \in Lanes |-> 0]

Init ==
    /\ entry \in {"run_precise_optimization_logic", "find_best_allocation"}
    /\ our_teams \in Rosters
    /\ IF entry = "find_best_allocation"
       THEN /\ targets \in [Lanes -> TargetVals]
            /\ enemy_data = [name \in Lanes |-> <<>>]
            /\ advantages = [name \in Lanes |-> None]
       ELSE /\ targets = NoTargets
            /\ enemy_data \in [Lanes -> EnemyRosters]
            /\ advantages \in AdvantageDicts
    /\ pc = "start"
    /\ lanes = InitLanes(NoTargets)
    /\ idx = 1
    /\ final_allocation = None
    /\ report = EmptyReport
    /\ power_diff = 0
    /\ calls = 0

(* lines 103-130: targets, totals and the two analysis entries *)
Analyse ==
    /\ pc = "start"
    /\ entry = "run_precise_optimization_logic"
    /\ LET tg == TargetPowers(enemy_data, advantages)
           total == SumPower(our_teams)
           required == RequiredTotal(tg)
       IN /\ targets' = tg
          /\ power_diff' = total - required
          /\ report' = [report EXCEPT !.analysis =
                <<[step |-> "targets", enemy_totals |-> EnemyTotals(enemy_data),
                   our_targets |-> tg],
                  [step |-> "total_power", our_total_power |-> total,
                   required_total_power |-> required,
                   power_difference |-> total - required]>>]
    /\ pc' = "check_count"
    /\ UNCHANGED <<entry, our_teams, enemy_data, advantages, lanes, idx,
                   final_allocation, calls>>

(* lines 132-134 *)
RejectCount ==
    /\ pc = "check_count"
    /\ CountMismatch(our_teams)
    /\ report' = [report EXCEPT !.summary = CountSummary(our_teams)]
    /\ pc' = "done"
    /\ UNCHANGED <<entry, our_teams, enemy_data, advantages, targets, lanes, idx,
                   final_allocation, power_diff, calls>>

(* lines 136-138 *)
RejectPower ==
    /\ pc = "check_count"
    /\ ~CountMismatch(our_teams)
    /\ Insufficient(power_diff)
    /\ report' = [report EXCEPT !.summary = InsufficientSummary(power_diff)]
    /\ pc' = "done"
    /\ UNCHANGED <<entry, our_teams, enemy_data, advantages, targets, lanes, idx,
                   final_allocation, power_diff, calls>>

(* line 140 and lines 52-56: the call from run_precise_optimization_logic *)
InvokeAllocator ==
    /\ pc = "check_count"
    /\ ~CountMismatch(our_teams)
    /\ ~Insufficient(power_diff)
    /\ lanes' = InitLanes(targets)
    /\ idx' = 1
    /\ calls' = calls + 1
    /\ pc' = "loop"
    /\ UNCHANGED <<entry, our_teams, enemy_data, advantages, targets,
                   final_allocation, report, power_diff>>

(* lines 52-56: find_best_allocation called on its own *)
CallAllocator ==
    /\ pc = "start"
    /\ entry = "find_best_allocation"
    /\ lanes' = InitLanes(targets)
    /\ idx' = 1
    /\ calls' = calls + 1
    /\ pc' = "loop"
    /\ UNCHANGED <<entry, our_teams, enemy_data, advantages, targets,
                   final_allocation, report, power_diff>>

(* lines 59-75, one iteration that assigns the team *)
AssignTeam ==
    /\ pc = "loop"
    /\ idx <= Len(our_teams)
    /\ ~NothingToAssign(Deficits(lanes))
    /\ lanes' = Assign(lanes, BestLane(Deficits(lanes)), our_teams[idx])
    /\ idx' = idx + 1
    /\ UNCHANGED <<pc, entry, our_teams, enemy_data, advantages, targets,
                   final_allocation, report, power_diff, calls>>

(* lines 59-68, one iteration that takes the 'continue' branch *)
SkipTeam ==
    /\ pc = "loop"
    /\ idx <= Len(our_teams)
    /\ NothingToAssign(Deficits(lanes))
    /\ idx' = idx + 1
    /\ UNCHANGED <<pc, entry, our_teams, enemy_data, advantages, targets, lanes,
                   final_allocation, report, power_diff, calls>>

(* lines 78-97 *)
Finalize ==
    /\ pc = "loop"
    /\ idx > Len(our_teams)
    /\ final_allocation' = Some(FinalAllocation(lanes))
    /\ pc' = IF entry = "find_best_allocation" THEN "done" ELSE "returned"
    /\ UNCHANGED <<entry, our_teams, enemy_data, advantages, targets, lanes, idx,
                   report, power_diff, calls>>

(* lines 141-150 *)
Summarise ==
    /\ pc = "returned"
    /\ report' = [report EXCEPT !.best_allocation = final_allocation,
                                !.summary = ResultSummary(final_allocation[1])]
    /\ pc' = "done"
    /\ UNCHANGED <<entry, our_teams, enemy_data, advantages, targets, lanes, idx,
                   final_allocation, power_diff, calls>>

Next ==
    \/ Analyse
    \/ RejectCount
    \/ RejectPower
    \/ InvokeAllocator
    \/ CallAllocator
    \/ AssignTeam
    \/ SkipTeam
    \/ Finalize
    \/ Summarise

Spec == Init /\ [][Next]_vars

----------------------------------------------------------------------------
(* Helpers of the properties                                               *)

Count(seq, t) == Cardinality({k \in DOMAIN seq : seq[k] = t})

Range(seq) == {seq[k] : k \in DOMAIN seq}

Returned == final_allocation # None

Result == final_allocation[1]

ViaRun == entry = "run_precise_optimization_logic"

RECURSIVE ParseNumber(_)
(* the number a text of digits and thousands separators denotes *)
ParseNumber(text) ==
    IF text = <<>> THEN 0
    ELSE LET last == text[Len(text)]
             rest == SubSeq(text, 1, Len(text) - 1)
         IN IF last = "," THEN ParseNumber(rest)
            ELSE 10 * ParseNumber(rest)
                 + (CHOOSE d \in 0..9 : DigitChars[d + 1] = last)

(* home total and sum of targets, taken from the inputs *)
HomeTotal == SumPower(our_teams)

TargetSum ==
    SumPower(enemy_data["left"]) + SumPower(enemy_data["center"])
    + SumPower(enemy_data["right"])
    + Get(advantages, "left", 0) + Get(advantages, "center", 0)
    + Get(advantages, "right", 0)

LanePos(name) == CHOOSE k \in 1..3 : LaneOrder[k] = name

----------------------------------------------------------------------------
(* C1: for a roster of exactly 60 teams, the returned allocation holds     *)
(* every roster entry, counted with multiplicity, in exactly one lane:     *)
(* the three 'teams' lists together hold each (id, power) pair as often    *)
(* as the roster does and nothing else.                                    *)
C1_ExactlyOneLane ==
    (Returned /\ Len(our_teams) = RosterSize) =>
        /\ \A t \in Range(our_teams) :
              Count(our_teams, t) =
                  Count(Result.lanes["left"].teams, t)
                  + Count(Result.lanes["center"].teams, t)
                  + Count(Result.lanes["right"].teams, t)
        /\ Len(Result.lanes["left"].teams) + Len(Result.lanes["center"].teams)
              + Len(Result.lanes["right"].teams) = Len(our_teams)

(* a 60-team roster with repeated (id, power) pairs has been allocated *)
C1_Witness ==
    /\ Returned
    /\ Len(our_teams) = RosterSize
    /\ \E t \in Range(our_teams) :
          Count(our_teams, t) > 1 /\ Count(Result.lanes["left"].teams, t) > 1

(* C2: during the loop and in the returned allocation no lane holds more   *)
(* than 20 teams, whatever the roster length.                              *)
C2_LaneAtMostCapacity ==
    /\ \A name \in Lanes : Len(lanes[name].teams) <= 20
    /\ Returned =>
          \A name \in Lanes :
              /\ Result.lanes[name].count <= 20
              /\ Len(Result.lanes[name].teams) <= 20

(* a roster of more than 60 teams has been processed to the end *)
C2_Witness ==
    /\ Returned
    /\ Len(our_teams) > RosterSize
    /\ \A name \in Lanes : Result.lanes[name].count = 20

(* the lane the code must pick in the current state: it has room, no lane  *)
(* with room has a larger deficit, and every earlier lane with room has a  *)
(* strictly smaller one                                                    *)
C3_Expected(name) ==
    /\ Len(lanes[name].teams) < 20
    /\ \A o \in Lanes :
          Len(lanes[o].teams) < 20 =>
              /\ lanes[o].target - lanes[o].current_power
                    <= lanes[name].target - lanes[name].current_power
              /\ LanePos(o) < LanePos(name) =>
                    lanes[o].target - lanes[o].current_power
                       < lanes[name].target - lanes[name].current_power

(* C3: every loop iteration that starts with a lane below 20 teams gives   *)
(* the current team to the first lane, in the order left, center, right,   *)
(* among the lanes below 20 teams with the largest deficit.                *)
C3_LargestDeficitFirst ==
    [][(pc = "loop" /\ idx' = idx + 1
        /\ \E o \in Lanes : Len(lanes[o].teams) < 20) =>
           \E name \in Lanes :
              /\ C3_Expected(name)
              /\ \A o \in Lanes : C3_Expected(o) => o = name
              /\ lanes'[name].teams = Append(lanes[name].teams, our_teams[idx])
              /\ \A o \in Lanes \ {name} : lanes'[o] = lanes[o]]_vars

(* a team was assigned while one lane was full and the other two tied *)
C3_Witness ==
    /\ pc = "loop"
    /\ Len(lanes["left"].teams) = 20
    /\ Len(lanes["center"].teams) > 1
    /\ Len(lanes["center"].teams) < 20
    /\ Len(lanes["right"].teams) < 20
    /\ lanes["center"].target - lanes["center"].current_power
          = lanes["right"].target - lanes["right"].current_power

(* C4: a lane's accumulated power is the sum of the powers of its teams,   *)
(* during the loop and as reported, and 'count' is the number of teams.    *)
C4_PowerIsSum ==
    /\ \A name \in Lanes : lanes[name].current_power = SumPower(lanes[name].teams)
    /\ Returned =>
          \A name \in Lanes :
              /\ Result.lanes[name].total_power = SumPower(Result.lanes[name].teams)
              /\ Result.lanes[name].count = Len(Result.lanes[name].teams)

C4_Witness ==
    /\ Returned
    /\ \A name \in Lanes : Result.lanes[name].total_power > 0
    /\ \E name \in Lanes : Result.lanes[name].total_power > 20

(* C5: in the returned allocation difference = total_power - target,       *)
(* is_success holds exactly when difference >= 0, and success exactly when *)
(* all three lanes have is_success.                                        *)
C5_Verdicts ==
    Returned =>
        /\ \A name \in Lanes :
              /\ Result.lanes[name].difference
                    = Result.lanes[name].total_power - Result.lanes[name].target
              /\ Result.lanes[name].target = targets[name]
              /\ Result.lanes[name].is_success <=> (Result.lanes[name].difference >= 0)
        /\ Result.success <=> (\A name \in Lanes : Result.lanes[name].is_success)

(* a negative target, a target met exactly and a target missed *)
C5_Witness ==
    /\ Returned
    /\ Result.lanes["left"].target < 0
    /\ Result.lanes["center"].difference = 0
    /\ Result.lanes["center"].total_power > 0
    /\ ~Result.lanes["right"].is_success

(* C6: with 60 teams whose total power is below the sum of the targets,    *)
(* the allocator is never invoked, best_allocation stays None, and the     *)
(* summary is the insufficient-power warning with the exact shortfall.     *)
C6_InsufficientPower ==
    (ViaRun /\ Len(our_teams) = 60 /\ HomeTotal < TargetSum) =>
        /\ calls = 0
        /\ ~Returned
        /\ report.best_allocation = None
        /\ pc = "done" =>
              /\ report.summary.kind = "insufficient"
              /\ ParseNumber(report.summary.text) = TargetSum - HomeTotal

(* the warning was issued with a shortfall that needs a separator *)
C6_Witness ==
    /\ ViaRun
    /\ pc = "done"
    /\ Len(our_teams) = 60
    /\ report.summary.kind = "insufficient"
    /\ TargetSum - HomeTotal >= 1000

(* C7: with a roster whose size is not 60, the result is the count         *)
(* mismatch summary naming the size, best_allocation is None and the       *)
(* allocator is never invoked, whatever the powers.                        *)
C7_CountMismatch ==
    (ViaRun /\ Len(our_teams) # 60) =>
        /\ calls = 0
        /\ ~Returned
        /\ report.best_allocation = None
        /\ pc = "done" =>
              /\ report.summary.kind = "count_mismatch"
              /\ ParseNumber(report.summary.text) = Len(our_teams)

(* the mismatch was reported although the total power was insufficient too *)
C7_Witness ==
    /\ ViaRun
    /\ pc = "done"
    /\ Len(our_teams) = 59
    /\ HomeTotal < TargetSum
    /\ report.summary.kind = "count_mismatch"

(* C8 as stated: on the count-mismatch path no total-power difference is   *)
(* recorded in the report.                                                 *)
C8_NoDifferenceRecorded ==
    (ViaRun /\ pc = "done" /\ report.summary.kind = "count_mismatch") =>
        \A k \in DOMAIN report.analysis : report.analysis[k].step # "total_power"

(* C8 amended: on the count-mismatch path the total-power difference is    *)
(* computed and recorded before the roster size is tested, but no          *)
(* allocation is produced.                                                 *)
C8_DifferenceRecordedFirst ==
    (ViaRun /\ Len(our_teams) # 60 /\ pc \in {"check_count", "done"}) =>
        /\ Len(report.analysis) = 2
        /\ report.analysis[2].step = "total_power"
        /\ report.analysis[2].power_difference = HomeTotal - TargetSum
        /\ report.analysis[2].our_total_power = HomeTotal
        /\ report.analysis[2].required_total_power = TargetSum
        /\ report.best_allocation = None
        /\ calls = 0

C8_Witness ==
    /\ ViaRun
    /\ pc = "done"
    /\ Len(our_teams) = 61
    /\ report.summary.kind = "count_mismatch"
    /\ report.analysis[2].power_difference > 0

Min(a, b) == IF a < b THEN a ELSE b

CountPower(teams, p) == Cardinality({k \in DOMAIN teams : teams[k][2] = p})

RECURSIVE Fits(_, _, _, _)
(* the teams whose power is in 'powers' can be dealt to the lanes so that  *)
(* no lane gets more than room[lane] of them and every lane's remaining    *)
(* need is covered; teams of equal power are interchangeable               *)
Fits(teams, powers, room, need) ==
    IF powers = {}
    THEN \A name \in Lanes : need[name] <= 0
    ELSE LET p == CHOOSE q \in powers : \A r \in powers : r <= q
             c == CountPower(teams, p)
         IN \E a \in 0..Min(c, room["left"]) :
               \E b \in 0..Min(c - a, room["center"]) :
                  /\ c - a - b <= room["right"]
                  /\ Fits(teams, powers \ {p},
                          [left |-> room["left"] - a, center |-> room["center"] - b,
                           right |-> room["right"] - (c - a - b)],
                          [left |-> need["left"] - p * a, center |-> need["center"] - p * b,
                           right |-> need["right"] - p * (c - a - b)])

(* some partition of the roster into the three lanes, each within its      *)
(* capacity, meets all three targets                                       *)
Feasible(teams, tg) ==
    Fits(teams, {teams[k][2] : k \in DOMAIN teams},
         [name \in Lanes |-> 20], tg)

(* the roster 3, 3, 2, 2, 2 followed by 55 teams of power 0, against the   *)
(* targets 6, 6, 0                                                         *)
C9_Instance ==
    /\ ViaRun
    /\ Len(our_teams) = 60
    /\ CountPower(our_teams, 3) = 2
    /\ CountPower(our_teams, 2) = 3
    /\ CountPower(our_teams, 0) = 55
    /\ \A k \in 1..59 : our_teams[k][2] >= our_teams[k + 1][2]
    /\ TargetPowers(enemy_data, advantages) = [left |-> 6, center |-> 6, right |-> 0]

(* C9: there is a sorted 60-team roster and targets with enough total      *)
(* power and a partition that meets all three targets for which the        *)
(* allocator reports success = false: for the roster 3, 3, 2, 2, 2, 0, ... *)
(* and the targets 6, 6, 0 the run ends with the partial warning and the   *)
(* full allocation of all 60 teams in the report.                          *)
C9_GreedyMissesFeasible ==
    (C9_Instance /\ pc = "done") =>
        /\ HomeTotal >= TargetSum
        /\ Feasible(our_teams, TargetPowers(enemy_data, advantages))
        /\ report.best_allocation # None
        /\ report.best_allocation[1].success = FALSE
        /\ report.summary.kind = "partial"
        /\ \A name \in Lanes : report.best_allocation[1].lanes[name].count = 20

C9_Witness ==
    /\ C9_Instance
    /\ pc = "done"
    /\ Feasible(our_teams, targets)
    /\ ~report.best_allocation[1].lanes["center"].is_success

(* C10: a roster of exactly 60 teams leaves 20 teams in every lane,        *)
(* whatever the targets.                                                   *)
C10_TwentyEach ==
    (Returned /\ Len(our_teams) = 60) =>
        \A name \in Lanes :
            /\ Result.lanes[name].count = 20
            /\ Len(Result.lanes[name].teams) = 20

(* every lane's target was met before the first team and each has 20 teams *)
C10_Witness ==
    /\ Returned
    /\ Len(our_teams) = 60
    /\ \A name \in Lanes : targets[name] < 0 /\ Result.lanes[name].count = 20

====
